---- MODULE Spec2Model ----
(***************************************************************************)
(* The tool-calling conversation loop of the MCP client                    *)
(* (src/mcp/mcp-client/client.py): MCPClient.chat_loop, process_query and  *)
(* the three provider flows _process_with_anthropic, _process_with_gemini  *)
(* and _process_with_openrouter.                                           *)
(*                                                                         *)
(* The model backend and the tool host are external: every answer they can *)
(* give (a response of any shape, an exception) is a nondeterministic      *)
(* choice.  A Python string is modelled as the sequence of its non-empty   *)
(* pieces, so that "\n".join(...) is an actual conversion.                 *)
(***************************************************************************)
EXTENDS Integers, Sequences, FiniteSets, TLC

\* ------------------------------------------------------------------ bounds
\* Longest response.content / message.tool_calls / candidate.content.parts
\* list a backend answers with.
MaxSegs == 2

\* ------------------------------------------------------------- value sets
NoneVal == "None"
Texts == {"4", "The answer is 42"}
ToolNames == {"lookup", "ghost"}
\* What session.call_tool returns as result.content: a tool's output, or the
\* text of a tool-host error result (isError).
ResultContents == {"42", "tool error text"}
Query == "What is 2+2?"
\* The tools the tool host declares; "ghost" is a name it does not declare.
HostTools == {"lookup"}

\* Model identifiers, as <<prefix, rest>>: str.startswith reads the prefix.
DefaultModel == <<"anthropic/", "claude-3-5-sonnet">>
\* The model lists of get_available_models, by provider.
AnthropicModels == << <<"claude", "-3-5-sonnet-20241022">>, <<"claude", "-3-opus-20240229">> >>
GeminiModels ==
    << <<"gemini", "-2.0-flash">>, <<"gemini", "-1.5-flash">>, <<"gemini", "-1.5-pro">> >>
OpenRouterModels == << <<"openai/", "gpt-4o">>, <<"anthropic/", "claude-3-opus">> >>

Range(f) == {f[i] : i \in DOMAIN f}

\* The model identifiers set_model is called with: the default, one of no
\* known provider, the first listed model of Anthropic and of Gemini and the
\* listed models of OpenRouter.
ModelIds ==
    {DefaultModel, <<"mistral/", "large">>, AnthropicModels[1], GeminiModels[1]}
      \cup Range(OpenRouterModels)

StartsWith(model, prefix) == model[1] = prefix

\* The provider process_query dispatches a model identifier to.
Provider(model) ==
    IF StartsWith(model, "anthropic/") \/ StartsWith(model, "claude") THEN "anthropic"
    ELSE IF StartsWith(model, "gemini") THEN "gemini"
    ELSE IF StartsWith(model, "openai/") \/ StartsWith(model, "openrouter/") THEN "openrouter"
    ELSE "unknown"

SeqsUpTo(S, n) == UNION {[1..k -> S] : k \in 0..n}

\* --------------------------------------------------------- backend answers
\* One record shape for the three native responses.  Anthropic reads
\* content (blocks); OpenRouter reads choices, message_content and
\* tool_calls; Gemini reads text and parts.
TextBlock(t) == [type |-> "text", text |-> t, id |-> 0, name |-> ""]
\* A tool_use block / tool_call / function_call part.  Its id is unique
\* within the response (its position); it has no text attribute.
ToolUse(i, n) == [type |-> "tool_use", text |-> NoneVal, id |-> i, name |-> n]

Segments ==
    {TextBlock(t) : t \in Texts} \cup {ToolUse(i, n) : i \in 1..MaxSegs, n \in ToolNames}

IdsByPosition(s) == \A i \in 1..Len(s) : s[i].type = "tool_use" => s[i].id = i

NoResponse ==
    [choices |-> FALSE, content |-> <<>>, message_content |-> NoneVal,
     tool_calls |-> <<>>, text |-> "", parts |-> <<>>]

AnthropicResponses ==
    { [NoResponse EXCEPT !.choices = TRUE, !.content = c] :
        c \in {s \in SeqsUpTo(Segments, MaxSegs) : IdsByPosition(s)} }

OpenRouterResponses ==
    { [NoResponse EXCEPT !.choices = ch, !.message_content = mc, !.tool_calls = tc] :
        ch \in BOOLEAN, mc \in Texts \cup {NoneVal},
        tc \in {s \in SeqsUpTo(Segments, MaxSegs) :
                  IdsByPosition(s) /\ \A i \in 1..Len(s) : s[i].type = "tool_use"} }

GeminiResponses ==
    { [NoResponse EXCEPT !.choices = TRUE, !.text = t, !.parts = ps] :
        t \in Texts \cup {""},
        ps \in {s \in SeqsUpTo(Segments, MaxSegs) :
                  IdsByPosition(s)
                  /\ \A i \in 1..Len(s) : s[i].type = "text" => s[i].text = "4"} }

Responses(p) ==
    CASE p = "anthropic" -> AnthropicResponses
      [] p = "gemini" -> GeminiResponses
      [] OTHER -> OpenRouterResponses

\* The list a provider flow iterates over for tool calls.
Iterated(p, r) ==
    CASE p = "anthropic" -> r.content
      [] p = "gemini" -> r.parts
      [] OTHER -> IF r.choices THEN r.tool_calls ELSE <<>>

\* The tool-call segments of a response.
ToolCallsOf(p, r) == SelectSeq(Iterated(p, r), LAMBDA s : s.type = "tool_use")

HasToolCall(p, r) == Len(ToolCallsOf(p, r)) > 0

\* What a backend can answer to a request.  A response holds tool calls only
\* when the request declares tools: the initial request of each flow does;
\* the requests _process_with_anthropic and _process_with_openrouter send
\* after a tool result pass no tools; the Gemini chat was started with the
\* tools, so each of its messages declares them.
Answers(p, initial) ==
    IF initial \/ p = "gemini" THEN Responses(p)
    ELSE {r \in Responses(p) : ~HasToolCall(p, r)}

\* ------------------------------------------------------------------ strings
\* A Python string is the sequence of its non-empty pieces.
Lit(s) == IF s = "" \/ s = NoneVal THEN <<>> ELSE <<s>>

\* message.content or ""
OrEmpty(content) == IF content = NoneVal THEN "" ELSE content

RECURSIVE JoinLines(_)
\* "\n".join(lines), lines a list of strings.
JoinLines(lines) ==
    IF Len(lines) = 0 THEN <<>>
    ELSE IF Len(lines) = 1 THEN lines[1]
    ELSE lines[1] \o <<"\n">> \o JoinLines(Tail(lines))

\* str(tool_args) of the arguments a tool call carries.
ArgsText(name) == "{'q': 'x'}"

\* A variant that leaves the tool call out of the answer.
Marker_Omitted(name) == <<>>

\* f"[Calling tool {tool_name} with args {tool_args}]"
Marker(name) == <<"[Calling tool ", name, " with args ", ArgsText(name), "]">>

\* The text segments of a response, in the order emitted, as the flows read
\* them: the text blocks of content, message.content, response.text.
TextLines(p, r) ==
    CASE p = "anthropic" ->
           [i \in 1..Len(SelectSeq(r.content, LAMBDA s : s.type = "text")) |->
              Lit(SelectSeq(r.content, LAMBDA s : s.type = "text")[i].text)]
      [] p = "gemini" -> <<Lit(r.text)>>
      [] OTHER -> IF r.choices THEN <<Lit(OrEmpty(r.message_content))>> ELSE <<>>

\* The text of a response: its text segments joined as the flows join text.
ResponseText(p, r) == JoinLines(TextLines(p, r))

GeminiKeyMessage ==
    <<"Gemini API key not configured. Please set GEMINI_API_KEY in your .env file.">>

OpenRouterKeyMessage ==
    <<"OpenRouter API key not configured. Please set OPENROUTER_API_KEY in your .env file.">>

\* f"Unknown model provider for: {self.current_model}"
UnknownProviderMessage(model) == <<"Unknown model provider for: ">> \o model

\* ----------------------------------------------------------------- messages
Msg(role, content, tool_calls, tool_call_id) ==
    [role |-> role, content |-> content, tool_calls |-> tool_calls,
     tool_call_id |-> tool_call_id]

UserMsg(content) == Msg("user", content, <<>>, 0)

\* A variant that records the whole batch of the response in each entry.
OpenRouterAssistantMsg_WholeBatch(message, tool_call) ==
    Msg("assistant", message.message_content,
        [k \in 1..Len(message.tool_calls) |->
           [id |-> message.tool_calls[k].id, name |-> message.tool_calls[k].name]], 0)

\* The assistant entry _process_with_openrouter appends for one tool call.
OpenRouterAssistantMsg(message, tool_call) ==
    Msg("assistant", message.message_content,
        <<[id |-> tool_call.id, name |-> tool_call.name]>>, 0)

\* The role=tool entry _process_with_openrouter appends for one tool call.
OpenRouterToolMsg(tool_call, content) == Msg("tool", content, <<>>, tool_call.id)

\* -------------------------------------------------------------------- state
VARIABLES
    current_model,   \* self.current_model
    anthropic_key,   \* whether the environment holds a credential for Anthropic()
    gemini,          \* self.gemini is set (GEMINI_API_KEY was configured)
    openrouter,      \* self.openrouter is set (OPENROUTER_API_KEY was configured)
    catalog,         \* the tool names the tool host lists
    pc,              \* idle | send | iter | tool | waiting | done | raised
    messages,        \* the transcript a flow builds and sends
    response,        \* the first response, whose segments the flow iterates
    idx,             \* position of the iteration in it (0: no response yet)
    final_text,      \* the list process_query joins into its answer
    result,          \* what process_query returned (pc = "done")
    error,           \* the exception process_query raised (pc = "raised")
    modelReqs,       \* backend requests issued by the current query
    toolCalls,       \* session.call_tool requests issued by the current query
    hostCalls,       \* the tool names sent to the tool host by the current query
    lastHadCall,     \* the last backend response held a tool call
    lastText,        \* the text of the last backend response
    everyHadCall,    \* every backend response of the query held a tool call
    requests,        \* per backend request of the query: the tools it declares
                     \* and the transcript it carries
    answered,        \* ids of the tool calls whose result was appended, in
                     \* the order of appending
    listReqs         \* session.list_tools requests issued by the current query

config == <<current_model, anthropic_key, gemini, openrouter, catalog>>
locals == <<messages, response, idx, final_text>>
counters == <<modelReqs, toolCalls, hostCalls, lastHadCall, lastText, everyHadCall>>
trace == <<requests, answered, listReqs>>
clientVars == <<config, pc, locals, result, error, counters, trace>>

\* ------------------------------------------------- nilRAG servers: state
\* The nilRAG manager as run by the MCP server (mcp-nilrag/server.py) and by
\* the FastAPI server (server_fastapi.py).  Handlers are coroutines on one
\* event loop: a handler runs alone between two of its await points.
NumTasks == 2        \* handlers in flight at a time
MaxCalls == 2        \* tool calls / HTTP requests of a run

Tasks == 1..NumTasks

VARIABLES
    app,             \* which server runs: "mcp" | "fastapi"
    managers,        \* the NilRAGManager objects created so far
    manager,         \* index of the manager the handlers use (the global)
    config_file,     \* nildb_config.json: "sample" | "complete" (holds the
                     \* schema id, query id and bearer tokens)
    sys_stdout,      \* sys.stdout: the stream it is bound to, and whether the
                     \* original stream is still open
    task,            \* per handler: the call it serves and where it stands
    calls,           \* calls received
    keyGens,         \* nilql.ClusterKey.generate rounds (both keys)
    schemaInits,     \* nil_db.init_schema calls
    queryInits,      \* nil_db.init_diff_query calls
    configWrites,    \* config file updates with new ids and tokens
    uploads,         \* nil_db.upload_data calls
    init_errors      \* initialize calls that ended in the except branch

nildb == <<keyGens, schemaInits, queryInits, configWrites, uploads>>
serverVars == <<app, managers, manager, config_file, sys_stdout, task, calls,
                nildb, init_errors>>

\* ------------------------------------------------------ nilRAG bridge: state
\* One run of nilrag_bridge.py per invocation by the TypeScript server.
VARIABLES
    argv,            \* sys.argv: its length, the function name, the arguments
    bridge_pc,       \* start | parse | call | exited
    real_stdout,     \* the JSON objects written to the process's stdout
    captured,        \* what went to the StringIO buffer f instead
    exit_status      \* exit status of the process, None while it runs

bridgeVars == <<argv, bridge_pc, real_stdout, captured, exit_status>>

\* SDK (src/sdk/tool_splitter.py and the two main servers it generates).
\* The largest number of KoshTool objects constructed.
MaxTools == 2
\* kosh_tools[i] is the __name__ of the function the i-th KoshTool decorates;
\* its tool_id is i (uuid4 gives every tool another id).  files is the content
\* of fast_api_server/ and mcp_server/ below generated_tools, main_files the
\* main server scripts that exist, deployed the tool_ids deploy_tool was
\* called with.  fastapi_run and mcp_run record the latest run of each main
\* server script.
VARIABLES kosh_tools, files, main_files, deployed, fastapi_run, mcp_run

sdkVars == <<kosh_tools, files, main_files, deployed, fastapi_run, mcp_run>>

vars == <<clientVars, serverVars, bridgeVars, sdkVars>>

provider == Provider(current_model)

FreshLocals ==
    /\ messages = <<>>
    /\ response = NoResponse
    /\ idx = 0
    /\ final_text = <<>>
    /\ result = <<>>
    /\ error = NoneVal
    /\ modelReqs = 0
    /\ toolCalls = 0
    /\ hostCalls = {}
    /\ lastHadCall = FALSE
    /\ lastText = <<>>
    /\ everyHadCall = TRUE
    /\ requests = <<>>
    /\ answered = <<>>
    /\ listReqs = 0

\* MCPClient.__init__ and connect_to_server (which lists the tools once, to
\* print them), then chat_loop waiting for input.
Init ==
    /\ current_model = DefaultModel
    /\ anthropic_key \in BOOLEAN
    /\ gemini \in BOOLEAN
    /\ openrouter \in BOOLEAN
    /\ catalog = HostTools
    /\ pc = "idle"
    /\ FreshLocals

\* chat_loop: "model set <model_name>".
SetModel ==
    /\ pc = "idle"
    /\ \E model \in ModelIds : current_model' = model
    /\ UNCHANGED <<anthropic_key, gemini, openrouter, catalog, pc, locals, result,
                   error, counters, trace>>
    /\ UNCHANGED <<serverVars, bridgeVars, sdkVars>>

\* MCPClient.get_available_models
get_available_models ==
    [anthropic  |-> AnthropicModels,
     gemini     |-> IF gemini THEN GeminiModels ELSE <<>>,
     openrouter |-> IF openrouter THEN OpenRouterModels ELSE <<>>]

Raise(e) == pc' = "raised" /\ error' = e /\ UNCHANGED result

Return(text) == pc' = "done" /\ result' = text /\ UNCHANGED error

\* A variant that keeps one transcript for the session and adds the query.
NewMessages_Kept == Append(messages, UserMsg(Query))

\* messages = [{"role": "user", "content": query}], the first statement of
\* each flow (Gemini: the query sent to a chat started for this query).
NewMessages == <<UserMsg(Query)>>

\* A variant that keeps the catalog of the connection instead of asking again.
ListTools_Cached == UNCHANGED listReqs

\* response = await self.session.list_tools(), first statement of process_query.
ListTools == listReqs' = listReqs + 1

\* chat_loop reads a query; process_query lists the tools and dispatches on the
\* model identifier, up to the first backend request of the chosen flow.
ProcessQuery ==
    /\ pc = "idle"
    /\ ListTools
    /\ UNCHANGED <<config, response, idx, final_text, counters, requests, answered>>
    /\ \/ Raise("CatalogError") /\ UNCHANGED messages
       \/ /\ provider = "anthropic"
          /\ messages' = NewMessages
          /\ pc' = "send"
          /\ UNCHANGED <<result, error>>
       \/ /\ provider = "gemini"
          /\ IF ~gemini
               THEN Return(GeminiKeyMessage) /\ UNCHANGED messages
               ELSE /\ messages' = NewMessages
                    /\ pc' = "send"
                    /\ UNCHANGED <<result, error>>
       \/ /\ provider = "openrouter"
          /\ IF ~openrouter
               THEN Return(OpenRouterKeyMessage) /\ UNCHANGED messages
               ELSE /\ messages' = NewMessages
                    /\ pc' = "send"
                    /\ UNCHANGED <<result, error>>
       \/ /\ provider = "unknown"
          /\ Return(UnknownProviderMessage(current_model))
          /\ UNCHANGED messages
    /\ UNCHANGED <<serverVars, bridgeVars, sdkVars>>

\* The tools argument of a backend request, <<>> when the request passes
\* none: the initial request of a flow passes available_tools; the requests
\* after a tool result pass no tools, except that every message of the Gemini
\* chat goes to the chat started with tools=functions.
RequestTools(p, initial) ==
    IF initial \/ p = "gemini" THEN <<catalog>> ELSE <<>>

\* The backend request a flow issues in the current state.
Request == [tools |-> RequestTools(provider, idx = 0), messages |-> messages]

Issued ==
    /\ modelReqs' = modelReqs + 1
    /\ requests' = Append(requests, Request)
    /\ UNCHANGED <<toolCalls, hostCalls, answered, listReqs>>

\* One more backend request has been issued and answered with response r.
Answered(r) ==
    /\ Issued
    /\ lastHadCall' = HasToolCall(provider, r)
    /\ lastText' = ResponseText(provider, r)
    /\ everyHadCall' = (everyHadCall /\ HasToolCall(provider, r))

\* A variant that sends the failed request again.
BackendFails_Retry ==
    /\ pc = "send"
    /\ Issued
    /\ error' = "BackendError"
    /\ UNCHANGED <<config, pc, locals, result, lastHadCall, lastText, everyHadCall>>
    /\ UNCHANGED <<serverVars, bridgeVars, sdkVars>>

\* A backend request (messages.create, chat.send_message,
\* chat.completions.create) raises: the exception leaves process_query.
BackendFails ==
    /\ pc = "send"
    /\ Issued
    /\ Raise("BackendError")
    /\ UNCHANGED <<config, locals, lastHadCall, lastText, everyHadCall>>
    /\ UNCHANGED <<serverVars, bridgeVars, sdkVars>>

\* ------------------------------------------------- _process_with_anthropic
\* self.anthropic.messages.create answers.  Anthropic() was built without a
\* credential check, so the request is issued whatever the environment holds;
\* it can only succeed with a credential.
AnthropicCreate ==
    /\ pc = "send"
    /\ provider = "anthropic"
    /\ anthropic_key
    /\ \E r \in Answers("anthropic", idx = 0) :
        /\ Answered(r)
        /\ IF idx = 0
             THEN \* the initial call: the loop over response.content starts
                  /\ response' = r
                  /\ idx' = 1
                  /\ final_text' = <<>>
                  /\ pc' = "iter"
                  /\ UNCHANGED <<result, error>>
             ELSE \* the call after a tool result: response.content[0].text
                  IF Len(r.content) = 0
                    THEN Raise("IndexError") /\ UNCHANGED <<response, idx, final_text>>
                  ELSE IF r.content[1].type # "text"
                    THEN Raise("AttributeError") /\ UNCHANGED <<response, idx, final_text>>
                  ELSE /\ final_text' = Append(final_text, Lit(r.content[1].text))
                       /\ idx' = idx + 1
                       /\ pc' = "iter"
                       /\ UNCHANGED <<response, result, error>>
    /\ UNCHANGED <<config, messages>>
    /\ UNCHANGED <<serverVars, bridgeVars, sdkVars>>

\* A variant that passes over text blocks without keeping their text.
AnthropicIter_SkipText ==
    /\ pc = "iter"
    /\ provider = "anthropic"
    /\ IF idx > Len(response.content)
         THEN Return(JoinLines(final_text)) /\ UNCHANGED <<idx, final_text>>
       ELSE IF response.content[idx].type = "text"
         THEN /\ idx' = idx + 1
              /\ UNCHANGED <<pc, final_text, result, error>>
       ELSE /\ pc' = "tool"
            /\ UNCHANGED <<idx, final_text, result, error>>
    /\ UNCHANGED <<config, messages, response, counters, trace>>
    /\ UNCHANGED <<serverVars, bridgeVars, sdkVars>>

\* One step of "for content in response.content", up to the next await.
AnthropicIter ==
    /\ pc = "iter"
    /\ provider = "anthropic"
    /\ IF idx > Len(response.content)
         THEN Return(JoinLines(final_text)) /\ UNCHANGED <<idx, final_text>>
       ELSE IF response.content[idx].type = "text"
         THEN /\ final_text' = Append(final_text, Lit(response.content[idx].text))
              /\ idx' = idx + 1
              /\ UNCHANGED <<pc, result, error>>
       ELSE /\ pc' = "tool"
            /\ UNCHANGED <<idx, final_text, result, error>>
    /\ UNCHANGED <<config, messages, response, counters, trace>>
    /\ UNCHANGED <<serverVars, bridgeVars, sdkVars>>

\* The request session.call_tool sends to the tool host.
HostCalled(name) ==
    /\ toolCalls' = toolCalls + 1
    /\ hostCalls' = hostCalls \cup {name}
    /\ UNCHANGED <<modelReqs, lastHadCall, lastText, everyHadCall, requests, listReqs>>

\* What _process_with_anthropic appends to messages after a tool call.
AnthropicAppend(content, result_content) ==
    (IF content.text # NoneVal /\ content.text # ""
       THEN <<Msg("assistant", content.text, <<>>, 0)>> ELSE <<>>)
    \o <<UserMsg(result_content)>>

\* await self.session.call_tool(tool_name, tool_args) for the tool_use block
\* at idx: the call raises, or returns a result whose content is appended.
AnthropicCallTool ==
    /\ pc = "tool"
    /\ provider = "anthropic"
    /\ LET content == response.content[idx] IN
        /\ HostCalled(content.name)
        /\ \/ Raise("ToolError") /\ UNCHANGED <<messages, final_text, answered>>
           \/ \E c \in ResultContents :
                /\ final_text' = Append(final_text, Marker(content.name))
                /\ answered' = Append(answered, content.id)
                /\ messages' = messages \o AnthropicAppend(content, c)
                /\ pc' = "send"
                /\ UNCHANGED <<result, error>>
    /\ UNCHANGED <<config, response, idx>>
    /\ UNCHANGED <<serverVars, bridgeVars, sdkVars>>

\* ------------------------------------------------ _process_with_openrouter
\* self.openrouter.chat.completions.create answers.
OpenRouterCreate ==
    /\ pc = "send"
    /\ provider = "openrouter"
    /\ \E r \in Answers("openrouter", idx = 0) :
        /\ Answered(r)
        /\ IF idx = 0
             THEN /\ response' = r
                  /\ idx' = 1
                  /\ final_text' =
                        IF r.choices THEN <<Lit(OrEmpty(r.message_content))>> ELSE <<>>
             ELSE /\ final_text' =
                        IF r.choices
                          THEN Append(final_text, Lit(OrEmpty(r.message_content)))
                          ELSE final_text
                  /\ idx' = idx + 1
                  /\ UNCHANGED response
    /\ pc' = "iter"
    /\ UNCHANGED <<config, messages, result, error>>
    /\ UNCHANGED <<serverVars, bridgeVars, sdkVars>>

\* One step of "for tool_call in message.tool_calls", up to json.loads.
OpenRouterIter ==
    /\ pc = "iter"
    /\ provider = "openrouter"
    /\ IF idx > Len(Iterated("openrouter", response))
         THEN Return(JoinLines(final_text))
         ELSE pc' = "tool" /\ UNCHANGED <<result, error>>
    /\ UNCHANGED <<config, locals, counters, trace>>
    /\ UNCHANGED <<serverVars, bridgeVars, sdkVars>>

\* json.loads(tool_call.function.arguments) raises on arguments that are not
\* JSON, before any tool call.
ArgumentsRejected ==
    /\ pc = "tool"
    /\ provider \in {"openrouter", "gemini"}
    /\ Raise("JSONDecodeError")
    /\ UNCHANGED <<config, locals, counters, trace>>
    /\ UNCHANGED <<serverVars, bridgeVars, sdkVars>>

\* A variant that takes the tool calls of a batch from its end.
ToolCallAt_Reversed(r, i) == r.tool_calls[Len(r.tool_calls) - i + 1]

\* The tool_call the i-th round of "for tool_call in message.tool_calls" holds.
ToolCallAt(r, i) == r.tool_calls[i]

\* await self.session.call_tool(tool_name, tool_args) for the tool call at idx.
OpenRouterCallTool ==
    /\ pc = "tool"
    /\ provider = "openrouter"
    /\ LET tool_call == ToolCallAt(response, idx) IN
        /\ HostCalled(tool_call.name)
        /\ \/ Raise("ToolError") /\ UNCHANGED <<messages, final_text, answered>>
           \/ \E c \in ResultContents :
                /\ final_text' = Append(final_text, Marker(tool_call.name))
                /\ answered' = Append(answered, tool_call.id)
                /\ messages' = messages \o
                      <<OpenRouterAssistantMsg(response, tool_call),
                        OpenRouterToolMsg(tool_call, c)>>
                /\ pc' = "send"
                /\ UNCHANGED <<result, error>>
    /\ UNCHANGED <<config, response, idx>>
    /\ UNCHANGED <<serverVars, bridgeVars, sdkVars>>

\* ---------------------------------------------------- _process_with_gemini
\* A variant whose loop restarts on every response: the tool calls of a
\* response to a tool result are executed too.
GeminiSend_Loop ==
    /\ pc = "send"
    /\ provider = "gemini"
    /\ \E r \in Answers("gemini", idx = 0) :
        /\ Answered(r)
        /\ response' = r
        /\ idx' = 1
        /\ final_text' = Append(final_text, Lit(r.text))
    /\ pc' = "iter"
    /\ UNCHANGED <<config, messages, result, error>>
    /\ UNCHANGED <<serverVars, bridgeVars, sdkVars>>

\* chat.send_message answers.  messages holds what this flow has sent to the
\* chat: the query, then each result.content.
GeminiSend ==
    /\ pc = "send"
    /\ provider = "gemini"
    /\ \E r \in Answers("gemini", idx = 0) :
        /\ Answered(r)
        /\ IF idx = 0
             THEN /\ response' = r
                  /\ idx' = 1
                  /\ final_text' = <<Lit(r.text)>>
             ELSE /\ final_text' = Append(final_text, Lit(r.text))
                  /\ idx' = idx + 1
                  /\ UNCHANGED response
    /\ pc' = "iter"
    /\ UNCHANGED <<config, messages, result, error>>
    /\ UNCHANGED <<serverVars, bridgeVars, sdkVars>>

\* One step of "for part in candidate.content.parts": a part is a tool call
\* when it carries a function_call.
GeminiIter ==
    /\ pc = "iter"
    /\ provider = "gemini"
    /\ IF idx > Len(response.parts)
         THEN Return(JoinLines(final_text)) /\ UNCHANGED idx
       ELSE IF response.parts[idx].type = "text"
         THEN idx' = idx + 1 /\ UNCHANGED <<pc, result, error>>
       ELSE pc' = "tool" /\ UNCHANGED <<idx, result, error>>
    /\ UNCHANGED <<config, messages, response, final_text, counters, trace>>
    /\ UNCHANGED <<serverVars, bridgeVars, sdkVars>>

\* A variant that sends the chat the query and the newest result only.
GeminiCallTool_Rebuild ==
    /\ pc = "tool"
    /\ provider = "gemini"
    /\ LET func_call == response.parts[idx] IN
        /\ HostCalled(func_call.name)
        /\ \/ Raise("ToolError") /\ UNCHANGED <<messages, final_text, answered>>
           \/ \E c \in ResultContents :
                /\ final_text' = Append(final_text, Marker(func_call.name))
                /\ answered' = Append(answered, func_call.id)
                /\ messages' = <<UserMsg(Query), UserMsg(c)>>
                /\ pc' = "send"
                /\ UNCHANGED <<result, error>>
    /\ UNCHANGED <<config, response, idx>>
    /\ UNCHANGED <<serverVars, bridgeVars, sdkVars>>

\* await self.session.call_tool(tool_name, tool_args) for the part at idx.
GeminiCallTool ==
    /\ pc = "tool"
    /\ provider = "gemini"
    /\ LET func_call == response.parts[idx] IN
        /\ HostCalled(func_call.name)
        /\ \/ Raise("ToolError") /\ UNCHANGED <<messages, final_text, answered>>
           \/ \E c \in ResultContents :
                /\ final_text' = Append(final_text, Marker(func_call.name))
                /\ answered' = Append(answered, func_call.id)
                /\ messages' = Append(messages, UserMsg(c))
                /\ pc' = "send"
                /\ UNCHANGED <<result, error>>
    /\ UNCHANGED <<config, response, idx>>
    /\ UNCHANGED <<serverVars, bridgeVars, sdkVars>>

\* -------------------------------------------------------------- tool host
\* await self.session.call_tool(...) is issued and the tool host never
\* answers it.  No flow passes a timeout to the call or wraps it in one, so
\* the await has nothing that ends it.
ToolHostSilent ==
    /\ pc = "tool"
    /\ HostCalled(Iterated(provider, response)[idx].name)
    /\ pc' = "waiting"
    /\ UNCHANGED <<config, locals, result, error, answered>>
    /\ UNCHANGED <<serverVars, bridgeVars, sdkVars>>

\* ---------------------------------------------------------------- chat_loop
\* process_query has returned or raised: chat_loop prints the answer or
\* "Error: ..." and waits for the next input; the query's locals are gone
\* (the transcript stays as the query left it until a flow makes a new one).
NextPrompt ==
    /\ pc \in {"done", "raised"}
    /\ pc' = "idle"
    /\ response' = NoResponse
    /\ idx' = 0
    /\ final_text' = <<>>
    /\ result' = <<>>
    /\ error' = NoneVal
    /\ modelReqs' = 0
    /\ toolCalls' = 0
    /\ hostCalls' = {}
    /\ lastHadCall' = FALSE
    /\ lastText' = <<>>
    /\ everyHadCall' = TRUE
    /\ requests' = <<>>
    /\ answered' = <<>>
    /\ listReqs' = 0
    /\ UNCHANGED <<config, messages>>
    /\ UNCHANGED <<serverVars, bridgeVars, sdkVars>>

Next ==
    \/ SetModel
    \/ ProcessQuery
    \/ BackendFails
    \/ AnthropicCreate
    \/ AnthropicIter
    \/ AnthropicCallTool
    \/ OpenRouterCreate
    \/ OpenRouterIter
    \/ ArgumentsRejected
    \/ OpenRouterCallTool
    \/ GeminiSend
    \/ GeminiIter
    \/ GeminiCallTool
    \/ ToolHostSilent
    \/ NextPrompt

\* The client when only another program of the repository runs.
ClientNotRun ==
    /\ current_model = DefaultModel
    /\ anthropic_key = TRUE
    /\ gemini = TRUE
    /\ openrouter = TRUE
    /\ catalog = HostTools
    /\ pc = "idle"
    /\ FreshLocals

\* ----------------------------------------------- nilRAG servers: actions
\* NilRAGManager.__init__
NewManager == [is_initialized |-> FALSE, additive_key |-> 0, xor_key |-> 0]

NoCall ==
    [op |-> NoneVal, at |-> "idle", self |-> 0, nested |-> FALSE,
     has_input |-> FALSE, has_prompt |-> FALSE, original_stdout |-> NoneVal,
     ret |-> NoneVal, reply |-> <<>>]

ToolOps == {"initialize", "upload_owner_data", "client_query"}

\* The names call_tool is called with: the three tools and one other name
\* (the FastAPI server has its three routes only).
CalledNames == IF app = "mcp" THEN ToolOps \cup {"no_such_tool"} ELSE ToolOps

\* TextContent(type="text", text=...)
TextContent(text) == [type |-> "text", text |-> text]

\* The handler of call c is done: the manager's method returned ret, which
\* call_tool wraps as [TextContent(type="text", text=result)].
Completed(c, ret) ==
    [c EXCEPT !.at = "idle", !.ret = ret,
              !.reply = IF app = "mcp" THEN <<TextContent(<<ret>>)>> ELSE <<>>]

\* A variant of call_tool without its except branch: the exception leaves
\* the handler and nothing is returned.
Caught_Reraised(c, e) == [c EXCEPT !.at = "idle", !.ret = "raised", !.reply = <<>>]

\* except Exception as e: return [TextContent(type="text", text=f"Error: {str(e)}")]
Caught(c, e) ==
    [c EXCEPT !.at = "idle", !.ret = "error", !.reply = <<TextContent(<<"Error: ", e>>)>>]

\* Where a handler is suspended in an await that hands the loop to others.
InitAwaits == {"init_schema", "init_diff_query"}

\* A handler between two statements with no await in between holds the
\* event loop: nobody else runs while some task is at "after_init".
Runs(t) == \A u \in Tasks \ {t} : task[u].at # "after_init"

\* serve() / the module body: manager = NilRAGManager(), nothing called yet.
ServerFresh ==
    /\ managers = <<NewManager>>
    /\ manager = 1
    /\ sys_stdout = [stream |-> "original", original_open |-> TRUE]
    /\ task = [t \in Tasks |-> NoCall]
    /\ calls = 0
    /\ keyGens = 0
    /\ schemaInits = 0
    /\ queryInits = 0
    /\ configWrites = 0
    /\ uploads = 0
    /\ init_errors = 0

\* The servers when only another program of the repository runs.
ServerNotRun == app = "mcp" /\ config_file = "sample" /\ ServerFresh

\* Either server starts; the config file may be left from an earlier run.
ServerInit ==
    /\ app \in {"mcp", "fastapi"}
    /\ config_file \in {"sample", "complete"}
    /\ ServerFresh

\* A tool call (MCP) or an HTTP request (FastAPI) arrives for handler t.
Call(t) ==
    /\ task[t].at = "idle"
    /\ calls < MaxCalls
    /\ Runs(t)
    /\ calls' = calls + 1
    /\ \E op \in CalledNames, has_input \in BOOLEAN, has_prompt \in BOOLEAN :
         /\ has_input => op = "upload_owner_data"
         /\ has_prompt => op = "client_query"
         /\ (op = "client_query" /\ app = "fastapi") => has_prompt
         /\ task' = [task EXCEPT ![t] =
                       [NoCall EXCEPT !.op = op, !.at = "entry", !.has_input = has_input,
                                      !.has_prompt = has_prompt]]
    /\ UNCHANGED <<app, managers, manager, config_file, sys_stdout, nildb, init_errors,
                   clientVars, bridgeVars, sdkVars>>

\* A variant of the guard of initialize that never finds the manager ready.
AlreadyInitialized_Never(ms, m) == FALSE

\* if self.is_initialized: return "... already initialized"
AlreadyInitialized(ms, m) == ms[m].is_initialized

\* sys.stdout = open(os.devnull, 'w'), FastAPI server only.
Redirected(out) == IF app = "fastapi" THEN [out EXCEPT !.stream = "devnull"] ELSE out

\* sys.stdout.close(); sys.stdout = original_stdout, FastAPI server only:
\* closes whatever sys.stdout is bound to at that moment.
Restored(out, original_stdout) ==
    IF app = "fastapi"
      THEN [stream |-> original_stdout,
            original_open |-> out.original_open /\ out.stream # "original"]
      ELSE out

\* initialize returns ret to its caller: the handler is done, or
\* upload_owner_data / client_query goes on (it drops the returned value).
Returned(c, ret) ==
    IF c.nested THEN [c EXCEPT !.at = "after_init"]
    ELSE Completed(c, ret)

\* NilRAGManager.initialize of manager m (of the managers ms) up to its first
\* await, for handler t; nested when upload_owner_data or client_query calls it.
initialize(t, m, ms, nested) ==
    LET c == [task[t] EXCEPT !.self = m, !.nested = nested] IN
    IF AlreadyInitialized(ms, m)
      THEN /\ managers' = ms
           /\ task' = [task EXCEPT ![t] = Returned(c, "already")]
           /\ UNCHANGED <<config_file, sys_stdout, nildb, init_errors>>
      ELSE \/ \* setup_config_file, load_nil_db_config or generate_jwt raises
              /\ managers' = ms
              /\ task' = [task EXCEPT ![t] = Returned(c, "init_error")]
              /\ sys_stdout' = Restored(Redirected(sys_stdout), sys_stdout.stream)
              /\ init_errors' = init_errors + 1
              /\ UNCHANGED <<config_file, nildb>>
           \/ \* both keys generated, then await self.nil_db.init_schema()
              /\ managers' = [ms EXCEPT ![m].additive_key = keyGens + 1,
                                        ![m].xor_key = keyGens + 1]
              /\ keyGens' = keyGens + 1
              /\ schemaInits' = schemaInits + 1
              /\ sys_stdout' = Redirected(sys_stdout)
              /\ task' = [task EXCEPT ![t] =
                            [c EXCEPT !.at = "init_schema",
                                      !.original_stdout = sys_stdout.stream]]
              /\ UNCHANGED <<config_file, queryInits, configWrites, uploads, init_errors>>

\* except Exception as e: of initialize, reached from an await that raised.
Failed(t) ==
    /\ sys_stdout' = Restored(sys_stdout, task[t].original_stdout)
    /\ init_errors' = init_errors + 1
    /\ task' = [task EXCEPT ![t] = Returned(task[t], "init_error")]

\* The body of upload_owner_data after its initialization check, for the
\* call c of handler t.
UploadBody(t, c) ==
    IF ~c.has_input
      THEN /\ task' = [task EXCEPT ![t] = Completed(c, "missing_input")]
           /\ UNCHANGED uploads
      ELSE \/ \* load_file, create_chunks, the embeddings, nilql.encrypt or
              \* load_nil_db_config raises
              /\ task' = [task EXCEPT ![t] = Completed(c, "upload_error")]
              /\ UNCHANGED uploads
           \/ \* keys at hand, config holds token and schema id: upload_data
              /\ managers[c.self].xor_key # 0
              /\ managers[c.self].additive_key # 0
              /\ config_file = "complete"
              /\ uploads' = uploads + 1
              /\ task' = [task EXCEPT ![t] = [c EXCEPT !.at = "upload_data"]]

\* The body of client_query after its initialization check.
QueryBody(t, c) ==
    \/ task' = [task EXCEPT ![t] = Completed(c, "query_error")]
    \/ /\ config_file = "complete"
       /\ task' = [task EXCEPT ![t] = Completed(c, "answer")]

\* call_tool "initialize" / POST /initialize starts running.  The FastAPI
\* endpoint first replaces the global manager by a new NilRAGManager.
HandleInitialize(t) ==
    /\ task[t].at = "entry"
    /\ task[t].op = "initialize"
    /\ Runs(t)
    /\ IF app = "fastapi"
         THEN /\ manager' = Len(managers) + 1
              /\ initialize(t, Len(managers) + 1, Append(managers, NewManager), FALSE)
         ELSE /\ UNCHANGED manager
              /\ initialize(t, manager, managers, FALSE)
    /\ UNCHANGED <<app, calls, clientVars, bridgeVars, sdkVars>>

\* call_tool "upload_owner_data" / POST /upload starts running:
\* "if not self.is_initialized: await self.initialize()", then the body.
HandleUpload(t) ==
    /\ task[t].at = "entry"
    /\ task[t].op = "upload_owner_data"
    /\ Runs(t)
    /\ IF managers[manager].is_initialized
         THEN /\ UploadBody(t, [task[t] EXCEPT !.self = manager])
              /\ UNCHANGED <<managers, config_file, sys_stdout, init_errors, keyGens,
                             schemaInits, queryInits, configWrites>>
         ELSE initialize(t, manager, managers, TRUE)
    /\ UNCHANGED <<app, manager, calls, clientVars, bridgeVars, sdkVars>>

\* call_tool "client_query" / POST /query starts running.
HandleQuery(t) ==
    /\ task[t].at = "entry"
    /\ task[t].op = "client_query"
    /\ Runs(t)
    /\ IF ~task[t].has_prompt
         THEN \* arguments["prompt"] raises KeyError before client_query is called
              /\ task' = [task EXCEPT ![t] = Caught(task[t], "'prompt'")]
              /\ UNCHANGED <<managers, config_file, sys_stdout, init_errors, nildb>>
         ELSE IF managers[manager].is_initialized
           THEN /\ QueryBody(t, [task[t] EXCEPT !.self = manager])
                /\ UNCHANGED <<managers, config_file, sys_stdout, init_errors, nildb>>
           ELSE initialize(t, manager, managers, TRUE)
    /\ UNCHANGED <<app, manager, calls, clientVars, bridgeVars, sdkVars>>

\* call_tool with a name that is none of the three tools: "case _".
HandleUnknown(t) ==
    /\ task[t].at = "entry"
    /\ task[t].op \notin ToolOps
    /\ Runs(t)
    /\ task' = [task EXCEPT ![t] =
                  [@ EXCEPT !.at = "idle", !.ret = "unknown_tool",
                            !.reply = <<TextContent(<<"Unknown tool: ", task[t].op>>)>>]]
    /\ UNCHANGED <<app, managers, manager, config_file, sys_stdout, calls, nildb,
                   init_errors, clientVars, bridgeVars, sdkVars>>

\* await self.nil_db.init_schema() ends; on return init_diff_query is
\* called and awaited.
InitSchemaReturns(t) ==
    /\ task[t].at = "init_schema"
    /\ Runs(t)
    /\ \/ /\ queryInits' = queryInits + 1
          /\ task' = [task EXCEPT ![t].at = "init_diff_query"]
          /\ UNCHANGED <<sys_stdout, init_errors>>
       \/ /\ Failed(t)
          /\ UNCHANGED queryInits
    /\ UNCHANGED <<app, managers, manager, config_file, calls, keyGens, schemaInits,
                   configWrites, uploads, clientVars, bridgeVars, sdkVars>>

\* await self.nil_db.init_diff_query() ends; on return stdout is restored
\* (FastAPI), the config file is updated and is_initialized is set.
InitDiffQueryReturns(t) ==
    /\ task[t].at = "init_diff_query"
    /\ Runs(t)
    /\ \/ LET out == Restored(sys_stdout, task[t].original_stdout) IN
            \/ /\ sys_stdout' = out
               /\ config_file' = "complete"
               /\ configWrites' = configWrites + 1
               /\ managers' = [managers EXCEPT ![task[t].self].is_initialized = TRUE]
               /\ task' = [task EXCEPT ![t] = Returned(task[t], "initialized")]
               /\ UNCHANGED init_errors
            \/ \* reading or writing the config file raises
               /\ sys_stdout' = Restored(out, task[t].original_stdout)
               /\ init_errors' = init_errors + 1
               /\ task' = [task EXCEPT ![t] = Returned(task[t], "init_error")]
               /\ UNCHANGED <<config_file, configWrites, managers>>
       \/ /\ Failed(t)
          /\ UNCHANGED <<config_file, configWrites, managers>>
    /\ UNCHANGED <<app, manager, calls, keyGens, schemaInits, queryInits, uploads,
                   clientVars, bridgeVars, sdkVars>>

\* The nested initialize has returned and its value is dropped:
\* upload_owner_data or client_query goes on with its body.
AfterInitialize(t) ==
    /\ task[t].at = "after_init"
    /\ IF task[t].op = "upload_owner_data"
         THEN UploadBody(t, task[t])
         ELSE QueryBody(t, task[t]) /\ UNCHANGED uploads
    /\ UNCHANGED <<app, managers, manager, config_file, sys_stdout, calls, keyGens,
                   schemaInits, queryInits, configWrites, init_errors, clientVars,
                   bridgeVars, sdkVars>>

\* await self.nil_db.upload_data(...) ends.
UploadDataReturns(t) ==
    /\ task[t].at = "upload_data"
    /\ Runs(t)
    /\ \E ret \in {"uploaded", "upload_error"} :
         task' = [task EXCEPT ![t] = Completed(@, ret)]
    /\ UNCHANGED <<app, managers, manager, config_file, sys_stdout, calls, nildb,
                   init_errors, clientVars, bridgeVars, sdkVars>>

ServerNext ==
    \/ \E t \in Tasks : Call(t)
    \/ \E t \in Tasks : HandleInitialize(t)
    \/ \E t \in Tasks : HandleUpload(t)
    \/ \E t \in Tasks : HandleQuery(t)
    \/ \E t \in Tasks : HandleUnknown(t)
    \/ \E t \in Tasks : InitSchemaReturns(t)
    \/ \E t \in Tasks : InitDiffQueryReturns(t)
    \/ \E t \in Tasks : AfterInitialize(t)
    \/ \E t \in Tasks : UploadDataReturns(t)

\* ---------------------------------------------------- nilRAG bridge: actions
\* len(sys.argv) of an invocation: the script name and 1, 2 or 3 arguments.
ArgCounts == {2, 3, 4}

FunctionNames == ToolOps \cup {"no_such_function"}

\* What sys.argv[2] can be: JSON text, or "@" and the path of a file.
ArgsInputs ==
    {"{...}", "[...]", "not json", "@object.json", "@broken.json", "@missing",
     "@unreadable"}

Invocations ==
    [argc : ArgCounts, function_name : FunctionNames, args_input : ArgsInputs]

\* The process has started and nothing has run.
BridgeFresh ==
    /\ bridge_pc = "start"
    /\ real_stdout = <<>>
    /\ captured = <<>>
    /\ exit_status = NoneVal

BridgeInit == argv \in Invocations /\ BridgeFresh

BridgeNotRun ==
    /\ argv = [argc |-> 3, function_name |-> "initialize", args_input |-> "{...}"]
    /\ BridgeFresh

\* print(json.dumps({"error": ...})) and print(json.dumps({"result": ...}))
ErrorJson == [key |-> "error"]
ResultJson == [key |-> "result"]

\* print(...) outside the redirection: the object goes to the real stdout.
StdoutWrite(obj) == real_stdout' = Append(real_stdout, obj) /\ UNCHANGED captured

\* print(...) inside "with redirect_stdout(f), redirect_stderr(f)": the
\* object goes to the buffer f.
BufferWrite(obj) == captured' = Append(captured, obj) /\ UNCHANGED real_stdout

\* sys.exit(status), or the end of main (status 0), or an uncaught exception
\* (status 1).
Exit(status) == bridge_pc' = "exited" /\ exit_status' = status

\* if len(sys.argv) != 3: print the usage error and exit.
CheckArguments ==
    /\ bridge_pc = "start"
    /\ IF argv.argc # 3
         THEN StdoutWrite(ErrorJson) /\ Exit(1)
         ELSE /\ bridge_pc' = "parse"
              /\ UNCHANGED <<real_stdout, captured, exit_status>>
    /\ UNCHANGED <<argv, clientVars, serverVars, sdkVars>>

\* json.loads(args_input), or json.load of the file named after "@".
ParseArguments ==
    /\ bridge_pc = "parse"
    /\ CASE argv.args_input \in {"{...}", "[...]", "@object.json"} ->
              /\ bridge_pc' = "call"
              /\ UNCHANGED <<real_stdout, captured, exit_status>>
         [] argv.args_input \in {"not json", "@broken.json"} ->   \* JSONDecodeError
              StdoutWrite(ErrorJson) /\ Exit(1)
         [] argv.args_input = "@missing" ->                       \* FileNotFoundError
              StdoutWrite(ErrorJson) /\ Exit(1)
         [] OTHER ->            \* another OSError of open(): no handler for it
              Exit(1) /\ UNCHANGED <<real_stdout, captured>>
    /\ UNCHANGED <<argv, clientVars, serverVars, sdkVars>>

\* The parsed arguments are a dict (args.get works on them).
ArgsIsDict == argv.args_input \in {"{...}", "@object.json"}

\* The import of NilRAGManager, the redirected call of the function, and
\* the print of its result.
CallFunction ==
    /\ bridge_pc = "call"
    /\ \/ \* "from server import NilRAGManager" raises: except Exception
          StdoutWrite(ErrorJson) /\ Exit(1)
       \/ CASE argv.function_name = "no_such_function" ->
                 BufferWrite(ErrorJson) /\ Exit(1)
            [] argv.function_name # "initialize" /\ ~ArgsIsDict ->
                 \* args.get raises AttributeError: except Exception
                 StdoutWrite(ErrorJson) /\ Exit(1)
            [] OTHER ->
                 \* the manager's methods catch their exceptions and return
                 StdoutWrite(ResultJson) /\ Exit(0)
    /\ UNCHANGED <<argv, clientVars, serverVars, sdkVars>>

\* The TypeScript server runs the script again.
Invoke ==
    /\ bridge_pc = "exited"
    /\ argv' \in Invocations
    /\ bridge_pc' = "start"
    /\ real_stdout' = <<>>
    /\ captured' = <<>>
    /\ exit_status' = NoneVal
    /\ UNCHANGED <<clientVars, serverVars, sdkVars>>

BridgeNext ==
    \/ CheckArguments
    \/ ParseArguments
    \/ CallFunction
    \/ Invoke

\* ------------------------------------------------------------------ SDK

ToolFunctions == {"example_tool", "other_tool"}

\* A file below <dir>/generated_tools: tool_id 0 is generated_tools itself,
\* any other tool_id the subdirectory generated_tools/<tool_id>.
File(dir, tool_id, stem, suffix) ==
    [dir |-> dir, tool_id |-> tool_id, stem |-> stem, suffix |-> suffix]

\* fastapi_tool_dir / f"{tool.original_function.__name__}_server.py"
ServerFile(k) == File("fast_api_server", k, kosh_tools[k], "_server.py")

\* mcp_tool_dir / f"{tool.original_function.__name__}_tool.py"
ToolFile(k) == File("mcp_server", k, kosh_tools[k], "_tool.py")

\* Files somebody put into generated_tools by hand.
PlacedFiles ==
    {File("fast_api_server", 0, "placed", "_server.py"),
     File("mcp_server", 0, "placed", "_tool.py")}

\* Path("generated_tools").glob("*<suffix>") of a script run in directory cwd:
\* the entries of cwd/generated_tools itself whose name ends in suffix.  glob
\* of a directory that does not exist yields nothing.
Glob(cwd, suffix) ==
    {f \in files : f.dir = cwd /\ f.tool_id = 0 /\ f.suffix = suffix}

NoRun == [ran |-> FALSE, deployed |-> {}, loaded |-> {}, mounted |-> {}, raised |-> FALSE]

SdkFresh ==
    /\ kosh_tools = <<>>
    /\ main_files = {}
    /\ deployed = {}
    /\ fastapi_run = NoRun
    /\ mcp_run = NoRun

SdkNotRun == files = {} /\ SdkFresh

SdkInit == files \in SUBSET PlacedFiles /\ SdkFresh

\* tool = KoshTool(...) and @tool on a function named fn
KoshTool(fn) ==
    /\ Len(kosh_tools) < MaxTools
    /\ kosh_tools' = Append(kosh_tools, fn)
    /\ UNCHANGED <<files, main_files, deployed, fastapi_run, mcp_run,
                   clientVars, serverVars, bridgeVars>>

\* deploy_tool(tool) for the tool with tool_id k
deploy_tool(k) ==
    /\ k <= Len(kosh_tools)
    /\ files' = files \cup {ServerFile(k), ToolFile(k)}
    /\ main_files' = main_files \cup {"fast_api_server", "mcp_server"}
    /\ deployed' = deployed \cup {k}
    /\ UNCHANGED <<kosh_tools, fastapi_run, mcp_run, clientVars, serverVars, bridgeVars>>

\* python main_server.py in directory cwd.  app.mount is Starlette's: called
\* with one argument it either mounts or raises, and a raise ends the script
\* at the first file.
RunMainServer(cwd) ==
    /\ "fast_api_server" \in main_files
    /\ LET found == Glob(cwd, "_server.py")
       IN  \/ fastapi_run' = [ran |-> TRUE, deployed |-> deployed, loaded |-> found,
                              mounted |-> found, raised |-> FALSE]
           \/ \E f \in found :
                fastapi_run' = [ran |-> TRUE, deployed |-> deployed, loaded |-> {f},
                                mounted |-> {}, raised |-> TRUE]
    /\ UNCHANGED <<kosh_tools, files, main_files, deployed, mcp_run,
                   clientVars, serverVars, bridgeVars>>

\* python main_mcp_server.py in directory cwd
RunMainMcpServer(cwd) ==
    /\ "mcp_server" \in main_files
    /\ mcp_run' = [ran |-> TRUE, deployed |-> deployed, loaded |-> Glob(cwd, "_tool.py"),
                   mounted |-> {}, raised |-> FALSE]
    /\ UNCHANGED <<kosh_tools, files, main_files, deployed, fastapi_run,
                   clientVars, serverVars, bridgeVars>>

\* The directories the main servers are started in: the project directory
\* deploy_tool ran in, or the directory of the script.
WorkingDirs == {"sdk", "fast_api_server", "mcp_server"}

SdkNext ==
    \/ \E fn \in ToolFunctions : KoshTool(fn)
    \/ \E k \in 1..MaxTools : deploy_tool(k)
    \/ \E cwd \in WorkingDirs : RunMainServer(cwd)
    \/ \E cwd \in WorkingDirs : RunMainMcpServer(cwd)

\* ------------------------------------------------------- specifications
\* One program runs at a time; the others stay as they start.
ServerSpecInit == ClientNotRun /\ ServerInit /\ BridgeNotRun /\ SdkNotRun
ServerSpec == ServerSpecInit /\ [][ServerNext]_vars

BridgeSpecInit == ClientNotRun /\ ServerNotRun /\ BridgeInit /\ SdkNotRun
BridgeSpec == BridgeSpecInit /\ [][BridgeNext]_vars

SdkSpecInit == ClientNotRun /\ ServerNotRun /\ BridgeNotRun /\ SdkInit
SdkSpec == SdkSpecInit /\ [][SdkNext]_vars

SpecInit == Init /\ ServerNotRun /\ BridgeNotRun /\ SdkNotRun
Spec == SpecInit /\ [][Next]_vars

\* ------------------------------------------------------------------ claims
HasCredential(p) ==
    CASE p = "anthropic" -> anthropic_key
      [] p = "gemini" -> gemini
      [] p = "openrouter" -> openrouter
      [] OTHER -> FALSE

\* Positions <<i, k>> of the tool-call requests in a transcript.
RequestsIn(ms) ==
    {ik \in (1..Len(ms)) \X (1..MaxSegs) : ik[2] <= Len(ms[ik[1]].tool_calls)}

\* Positions of the tool results in a transcript that answer call id.
ResultsFor(ms, id) ==
    {j \in 1..Len(ms) : ms[j].role = "tool" /\ ms[j].tool_call_id = id}

\* The tool-call segments of the first response the flow has not reached.
PendingCalls ==
    {k \in 1..Len(Iterated(provider, response)) :
        k > idx /\ Iterated(provider, response)[k].type = "tool_use"}

NumFirstCalls == Len(ToolCallsOf(provider, response))

\* C1: whenever the client is about to send a request to the backend, every
\* tool-call request in the transcript has exactly one tool result in the
\* transcript that carries its id, and that result follows the request.
C1_RequestsAnswered ==
    pc = "send" =>
      \A ik \in RequestsIn(messages) :
        LET id == messages[ik[1]].tool_calls[ik[2]].id IN
          /\ Cardinality(ResultsFor(messages, id)) = 1
          /\ \A j \in ResultsFor(messages, id) : j > ik[1]

\* C1 witness: about to send with two answered tool-call requests recorded.
C1_Witness ==
    /\ pc = "send"
    /\ Cardinality(RequestsIn(messages)) = 2
    /\ \A ik \in RequestsIn(messages) :
         ResultsFor(messages, messages[ik[1]].tool_calls[ik[2]].id) # {}

\* C2: whenever process_query returns an answer normally, the last backend
\* response it received held no tool call.
C2_LastResponseToolFree ==
    (pc = "done" /\ modelReqs > 0) => ~lastHadCall

C4_BatchBarrier ==
    (pc = "send" /\ idx > 0) => PendingCalls = {}

\* C5: a failing tool call never makes process_query raise.
C5_ToolFailureFolded ==
    ~(pc = "raised" /\ error = "ToolError")

\* C6: the tool host is contacted only for tools of the catalog.
C6_UnknownToolNotSent ==
    hostCalls \subseteq catalog

\* C7: a failed backend request leaves process_query as an exception, and
\* from then on the query issues no backend request and no tool call: the
\* only step left is chat_loop reporting it and waiting for the next input.
C7_BackendFailureAborts ==
    [][ /\ (error' = "BackendError" => pc' = "raised")
        /\ (error = "BackendError" =>
              /\ pc' = "idle"
              /\ modelReqs' <= modelReqs
              /\ toolCalls' <= toolCalls) ]_vars

\* C7 witness: a backend failure after a tool call was already made.
C7_Witness ==
    pc = "raised" /\ error = "BackendError" /\ toolCalls = 1 /\ modelReqs = 2

\* C8: with no credential for the selected provider, no backend request and
\* no tool call is issued, and a query that got past listing the tools ends
\* by returning a message.
C8_NoCredentialNoRequest ==
    (provider # "unknown" /\ ~HasCredential(provider)) =>
      /\ modelReqs = 0
      /\ toolCalls = 0
      /\ (pc = "raised" => error = "CatalogError")
      /\ (pc = "done" => result \in {GeminiKeyMessage, OpenRouterKeyMessage})

\* The lines of a response's text with a newline between two of them.
Interleaved(lines) ==
    [i \in 1..(IF Len(lines) = 0 THEN 0 ELSE 2 * Len(lines) - 1) |->
       IF i % 2 = 1 THEN lines[(i + 1) \div 2] ELSE "\n"]

\* The text pieces of a response: every text segment gives one piece.
TextPieces(p, r) ==
    CASE p = "anthropic" ->
           [i \in 1..Len(SelectSeq(r.content, LAMBDA s : s.type = "text")) |->
              SelectSeq(r.content, LAMBDA s : s.type = "text")[i].text]
      [] p = "gemini" -> IF r.text = "" THEN <<>> ELSE <<r.text>>
      [] OTHER -> IF r.choices /\ r.message_content # NoneVal
                    THEN <<r.message_content>> ELSE <<>>

\* C9: when the first response holds no tool call, process_query returns
\* after exactly one backend request and no tool call, and its answer is the
\* text of that response (its text segments, a newline between two).
C9_DirectAnswer ==
    (pc = "done" /\ modelReqs > 0 /\ ~HasToolCall(provider, response)) =>
      /\ modelReqs = 1
      /\ toolCalls = 0
      /\ result = Interleaved(TextPieces(provider, response))

\* C9 witness: the answer "4" to a response with the single text segment "4".
C9_Witness ==
    /\ pc = "done"
    /\ provider = "anthropic"
    /\ response.content = <<TextBlock("4")>>
    /\ result = <<"4">>

LastOf(S) == CHOOSE i \in S : \A j \in S : j <= i

MarkersIn(s) == {i \in 1..Len(s) : s[i] = "[Calling tool "}

\* C10 (as stated): when tools were called, the answer is exactly the text
\* of the last, tool-call-free response.
C10_OnlyTerminalText ==
    (pc = "done" /\ toolCalls > 0 /\ ~lastHadCall) => result = lastText

\* C10 (amended): when tools were called, the answer is the running record of
\* the query: it holds one "[Calling tool ...]" marker per executed tool
\* call and, when the last response has text, the first text segment of that
\* response as the line right after the last marker.
C10_RunningRecord ==
    (pc = "done" /\ toolCalls > 0) =>
      /\ Cardinality(MarkersIn(result)) = toolCalls
      /\ lastText # <<>> =>
           LET m == LastOf(MarkersIn(result)) IN
             /\ m + 6 <= Len(result)
             /\ result[m + 5] = "\n"
             /\ result[m + 6] = lastText[1]

\* C10 witness: one tool call, then the response "The answer is 42".
C10_Witness ==
    /\ pc = "done"
    /\ toolCalls = 1
    /\ ~lastHadCall
    /\ lastText = <<"The answer is 42">>
    /\ result # lastText

\* Positions of the assistant entries of a transcript.
AssistantTurns(ms) == {j \in 1..Len(ms) : ms[j].role = "assistant"}

\* Positions of the entries of a transcript that hold a tool result: the
\* role=tool entries, and the user entries after the query.
ToolResultTurns(ms) ==
    {j \in 2..Len(ms) : ms[j].role \in {"tool", "user"}}

\* Backend requests of the query that were answered with a response.
Successes == Len(requests) - (IF error = "BackendError" THEN 1 ELSE 0)

\* C11: a query whose first response holds exactly one tool call and whose
\* second response holds none ends with a transcript of exactly four turns:
\* user, assistant with the call, tool result, final assistant.
C11_FourTurns ==
    (pc = "done" /\ NumFirstCalls = 1 /\ modelReqs = 2 /\ ~lastHadCall) =>
      /\ Len(messages) = 4
      /\ messages[1].role = "user"
      /\ messages[2].role = "assistant"
      /\ Len(messages[2].tool_calls) = 1
      /\ messages[3].role \in {"tool", "user"}
      /\ messages[4].role = "assistant"
      /\ messages[4].tool_calls = <<>>

\* C12: when a query completes, its transcript holds as many assistant turns
\* as the backend returned responses, one per successful response.
C12_AssistantTurnPerResponse ==
    pc = "done" => Cardinality(AssistantTurns(messages)) = Successes

\* C13: every backend request of a query, follow-ups included, declares the
\* tool catalog.
C13_CatalogOnEveryRequest ==
    \A i \in 1..Len(requests) : requests[i].tools = <<catalog>>

\* The prefix relation on sequences.
IsPrefix(s, t) == Len(s) <= Len(t) /\ \A i \in 1..Len(s) : s[i] = t[i]

\* Call ids of the role=tool entries of a transcript, in transcript order.
ToolResultIds(ms) ==
    LET tool == SelectSeq(ms, LAMBDA m : m.role = "tool")
    IN  [k \in 1..Len(tool) |-> tool[k].tool_call_id]

\* C14: the tool results of a batch are appended in the order of the tool
\* calls in the response, whatever the size of the batch: the k-th appended
\* result answers the k-th tool call, and the role=tool entries of the
\* OpenRouter transcript of the query carry the call ids in that same order.
C14_ResultsInRequestOrder ==
    /\ Len(answered) <= NumFirstCalls
    /\ \A k \in 1..Len(answered) :
         answered[k] = ToolCallsOf(provider, response)[k].id
    /\ (provider = "openrouter" /\ Len(requests) > 0) =>
         ToolResultIds(messages) = answered

\* C14 witness: an OpenRouter batch of two tool calls, both answered.
C14_Witness ==
    /\ provider = "openrouter"
    /\ NumFirstCalls = 2
    /\ Len(answered) = 2
    /\ Len(ToolResultIds(messages)) = 2

\* C15: every tool result of the transcript carries the call id of a tool
\* call requested in an assistant turn that precedes it.
C15_ResultsCarryCallId ==
    \A j \in ToolResultTurns(messages) :
      \E i \in AssistantTurns(messages) :
        /\ i < j
        /\ \E k \in 1..Len(messages[i].tool_calls) :
             messages[i].tool_calls[k].id = messages[j].tool_call_id

\* C16: while a query is in progress its transcript only grows at the end:
\* every step that stays within the query keeps the entries already there.
C16_AppendOnly ==
    [][pc # "idle" => IsPrefix(messages, messages')]_vars

\* C16 witness: a transcript that has grown by two tool results.
C16_Witness ==
    /\ pc = "done"
    /\ toolCalls = 2
    /\ Len(messages) >= 3

\* C17: process_query never waits forever on a tool call: whenever it waits
\* on a call the tool host leaves unanswered, a step is still to come (the
\* timeout that folds the call into a failed tool result).
C17_ToolCallTimesOut ==
    pc = "waiting" => ENABLED Next

\* C18: every terminal failure reaches the caller as a message returned by
\* process_query, never as an exception; for a model id of an unknown
\* provider that message names the model and no backend request and no tool
\* call was issued.
C18_FailuresExplained ==
    /\ pc # "raised"
    /\ (pc = "done" /\ provider = "unknown") =>
         /\ result = UnknownProviderMessage(current_model)
         /\ modelReqs = 0
         /\ toolCalls = 0

\* C20 (as stated): the catalog is fetched at session start only; no query
\* issues a list_tools request.
C20_ListedOnceAtStart ==
    listReqs = 0

\* C20 (amended): every query issues exactly one list_tools request, as its
\* first step and before any backend request; the steps after it, tool
\* calls and follow-up requests included, issue none.
C20_ListedOncePerQuery ==
    /\ listReqs = (IF pc = "idle" THEN 0 ELSE 1)
    /\ Len(requests) > 0 => listReqs = 1

\* C20 witness: a completed query of three backend requests and two tool
\* calls that listed the tools once.
C20_Witness ==
    /\ pc = "done"
    /\ modelReqs = 3
    /\ toolCalls = 2
    /\ listReqs = 1

\* C21: every model id get_available_models lists under a provider is, once
\* selected, handled by that provider's flow, and a provider without a
\* configured credential lists no models.
C21_ListedModelsRouted ==
    \A P \in DOMAIN get_available_models :
      /\ (pc \notin {"idle", "raised"} /\ current_model \in Range(get_available_models[P]))
           => provider = P
      /\ ~HasCredential(P) => get_available_models[P] = <<>>

\* C22: the first backend request of every query carries exactly one turn,
\* the user turn with the text of the query, whatever the queries and
\* set_model calls before it left behind.
C22_FreshTranscript ==
    Len(requests) > 0 => requests[1].messages = <<UserMsg(Query)>>

\* C22 witness: the first request of a query that went on to a tool call and
\* a follow-up request carrying three entries.
C22_Witness ==
    /\ Len(requests) = 2
    /\ requests[1].messages = <<UserMsg(Query)>>
    /\ Len(requests[2].messages) = 3

\* What is left of a query: the segments of the first response the loop has
\* not passed, and within a segment the steps iterate, call tool, send.
Remaining ==
    IF idx = 0 THEN 3 * MaxSegs + 4
    ELSE 3 * (Len(Iterated(provider, response)) - idx)
           + (CASE pc = "iter" -> 3 [] pc = "tool" -> 2 [] pc = "send" -> 1 [] OTHER -> 0)

C24_InitializedOnce ==
    (app = "mcp" /\ init_errors = 0) =>
      /\ schemaInits <= 1
      /\ queryInits <= 1
      /\ keyGens <= 1

\* The effects of an initialization: keys, nilDB calls, config file, manager.
InitEffects == <<managers, config_file, keyGens, schemaInits, queryInits, configWrites>>

\* C25: once is_initialized is true it stays true, and an initialize call
\* that starts on the initialized manager of the MCP server returns the
\* "already initialized" message at once and changes nothing.
C25_InitializeIdempotent ==
    [][/\ \A m \in 1..Len(managers) :
            managers[m].is_initialized => managers'[m].is_initialized
       /\ \A t \in Tasks :
            ( /\ app = "mcp"
              /\ task[t].at = "entry"
              /\ task[t].op = "initialize"
              /\ managers[manager].is_initialized
              /\ task'[t] # task[t] )
            => /\ task'[t].at = "idle"
               /\ task'[t].ret = "already"
               /\ UNCHANGED InitEffects]_vars

\* C25 witness: after one successful initialization of the MCP server's
\* manager a later initialize call has returned "already initialized".
C25_Witness ==
    /\ app = "mcp"
    /\ configWrites = 1
    /\ managers[manager].is_initialized
    /\ \E t \in Tasks : task[t].op = "initialize" /\ task[t].ret = "already"

\* C26: upload_owner_data has nil_db.upload_data in flight only on a manager
\* whose is_initialized is true.
C26_UploadOnlyInitialized ==
    \A t \in Tasks :
      (app = "mcp" /\ task[t].at = "upload_data") => managers[task[t].self].is_initialized

\* C27: an upload_owner_data call with neither file_path nor file_content
\* starts no initialization and no upload, and returns the missing-input
\* error.
C27_MissingInputNoEffect ==
    \A t \in Tasks :
      (task[t].op = "upload_owner_data" /\ ~task[t].has_input) =>
        /\ task[t].at \in {"entry", "idle"}
        /\ task[t].at = "idle" => task[t].ret = "missing_input"

\* C28: in the FastAPI server, once an initialization has succeeded no later
\* step runs schema initialization or generates keys again.
C28_NoReinitialization ==
    [][(app = "fastapi" /\ \E m \in 1..Len(managers) : managers[m].is_initialized) =>
         /\ schemaInits' = schemaInits
         /\ keyGens' = keyGens]_vars

\* C29: in the FastAPI server, whenever no initialize is suspended in an
\* await, sys.stdout is the original stream and that stream is open.
C29_StdoutRestored ==
    (app = "fastapi" /\ \A t \in Tasks : task[t].at \notin InitAwaits) =>
      /\ sys_stdout.stream = "original"
      /\ sys_stdout.original_open

\* C30: a bridge run that has ended wrote exactly one JSON object to the
\* real stdout: the result with exit status 0, or the error with status 1.
C30_OneJsonObject ==
    bridge_pc = "exited" =>
      /\ Len(real_stdout) = 1
      /\ \/ exit_status = 0 /\ real_stdout[1] = ResultJson
         \/ exit_status = 1 /\ real_stdout[1] = ErrorJson

\* C31: the call_tool handler of the MCP server never lets an exception
\* out: every handled call has returned exactly one text item, which is
\* "Unknown tool: <name>" for a name that is none of the three tools and
\* "Error: <message>" for a client_query call without a prompt argument.
C31_CallToolAlwaysReplies ==
    \A t \in Tasks :
      (app = "mcp" /\ task[t].at = "idle" /\ task[t].op # NoneVal) =>
        /\ task[t].ret # "raised"
        /\ Len(task[t].reply) = 1
        /\ task[t].reply[1].type = "text"
        /\ task[t].op \notin ToolOps =>
             task[t].reply[1].text = <<"Unknown tool: ", task[t].op>>
        /\ (task[t].op = "client_query" /\ ~task[t].has_prompt) =>
             /\ Len(task[t].reply[1].text) = 2
             /\ task[t].reply[1].text[1] = "Error: "

\* C31 witness: the MCP server has answered a call of an unknown tool and a
\* client_query call without prompt.
C31_Witness ==
    /\ app = "mcp"
    /\ \E t \in Tasks : task[t].at = "idle" /\ task[t].ret = "unknown_tool"
    /\ \E t \in Tasks : task[t].at = "idle" /\ task[t].ret = "error"

\* C32: every deployed tool is picked up by the main servers: when a main
\* server has run, the file deploy_tool wrote for each tool deployed before
\* the run is among the files that run loaded (and, for the FastAPI server,
\* mounted).
C32_DeployedToolsServed ==
    /\ fastapi_run.ran =>
         \A k \in fastapi_run.deployed :
            ServerFile(k) \in fastapi_run.loaded /\ ServerFile(k) \in fastapi_run.mounted
    /\ mcp_run.ran =>
         \A k \in mcp_run.deployed : ToolFile(k) \in mcp_run.loaded

====
